---- MODULE Spec2Model ----
(***************************************************************************)
(* Rutin.in habit tracker: the useHabits store (hooks/useHabits.ts), the   *)
(* storage serialisation and the backup import (useLocalStorage/useUpload).*)
(*                                                                         *)
(* JavaScript values are modelled as follows.                              *)
(*   - strings are strings; a number (createdAt, a version number) is the  *)
(*     string of its decimal digits, so that every scalar compares;        *)
(*   - undefined and null are the markers Undefined and Null;              *)
(*   - an Array is a sequence;                                             *)
(*   - a Set<string> is a set (its insertion order is not kept);           *)
(*   - an object is a record holding exactly the keys that are present;    *)
(*     reading an absent scalar key yields Undefined.                      *)
(***************************************************************************)
EXTENDS Integers, Sequences, FiniteSets, TLC

\* ------------------------------------------------------------------ bounds

\* Longest habits list the store is driven to by addHabit / setHabits in Spec.
MaxStoreLen == 2

\* Longest habits list drawn as an input of the single-call specification.
MaxHabits == 3

\* Most writes to the storage that fail in one behaviour.
MaxFailedWrites == 1

\* Most runs of the mount effect in one page load.
MaxMounts == 2

\* Most milliseconds that pass in one behaviour.
MaxMs == 2

\* ------------------------------------------------------------ JS values

Undefined == "<undefined>"
Null == "<null>"

\* ToBoolean of a modelled scalar: undefined, null, "" and 0 are falsy.
Falsy(v) == v \in {Undefined, Null, "", "0"}

\* a || b
OrElse(a, b) == IF Falsy(a) THEN b ELSE a

\* o.f for a scalar key of an object: undefined when the key is absent.
Get(o, f) == IF f \in DOMAIN o THEN o[f] ELSE Undefined

Range(s) == {s[i] : i \in DOMAIN s}

\* arr.filter(x => x !== v)
Without(arr, v) == SelectSeq(arr, LAMBDA x : x # v)

\* Set.prototype.has
SetHas(s, x) == x \in s

\* Set.prototype.add
SetAdd(s, x) == s \cup {x}

\* Set.prototype.delete
SetDelete(s, x) == s \ {x}

\* new Set(iterable): the elements of the array, each once.
NewSet(arr) == Range(arr)

\* Array.from(set): the elements, each once, in the set's iteration order.
\* That order is the insertion order, which a set of the model does not
\* keep; one fixed order of the elements stands for it.
ArrayFrom(s) == CHOOSE arr \in [1..Cardinality(s) -> s] : Range(arr) = s

\* ------------------------------------------------------------ the habits

\* The ids of a habits list, in list order (habits.map(h => h.id)).
IdsOf(hs) == [i \in DOMAIN hs |-> hs[i].id]

\* habits.filter(habit => habit.id !== id)
RECURSIVE WithoutId(_, _)
WithoutId(hs, id) ==
    IF hs = <<>> THEN <<>>
    ELSE IF Head(hs).id # id THEN <<Head(hs)>> \o WithoutId(Tail(hs), id)
    ELSE WithoutId(Tail(hs), id)

\* { ...habit, ...updates }: the fields of updates override those of habit.
Spread(habit, updates) ==
    [f \in DOMAIN habit \cup DOMAIN updates |->
        IF f \in DOMAIN updates THEN updates[f] ELSE habit[f]]

\* habitMap.has(id), for habitMap = new Map(habits.map(h => [h.id, h]))
MapHas(hs, id) == \E i \in DOMAIN hs : hs[i].id = id

\* habitMap.get(id) when the map has the id: the last habit holding it (a
\* later entry of the Map constructor overwrites an earlier one).
MapGet(hs, id) ==
    LET at == {i \in DOMAIN hs : hs[i].id = id}
    IN hs[CHOOSE i \in at : \A j \in at : j <= i]

\* A reorder that keeps the habits named by newOrder in their old order.
RECURSIVE ReorderedInPlace(_, _)
ReorderedInPlace(hs, newOrder) ==
    IF hs = <<>> THEN <<>>
    ELSE IF Head(hs).id \in Range(newOrder)
         THEN <<Head(hs)>> \o ReorderedInPlace(Tail(hs), newOrder)
         ELSE ReorderedInPlace(Tail(hs), newOrder)

\* A reorder that keeps the habits newOrder does not name, after the others.
ReorderedKeepRest(hs, newOrder) ==
    LET pick[k \in 0..Len(newOrder)] ==
            IF k = 0 THEN <<>>
            ELSE IF MapHas(hs, newOrder[k])
                 THEN Append(pick[k - 1], MapGet(hs, newOrder[k]))
                 ELSE pick[k - 1]
    IN pick[Len(newOrder)] \o SelectSeq(hs, LAMBDA h : h.id \notin Range(newOrder))

\* newOrder.map(id => habitMap.get(id)).filter(h => h !== undefined)
RECURSIVE Reordered(_, _)
Reordered(hs, newOrder) ==
    IF newOrder = <<>> THEN <<>>
    ELSE IF MapHas(hs, Head(newOrder))
         THEN <<MapGet(hs, Head(newOrder))>> \o Reordered(hs, Tail(newOrder))
         ELSE Reordered(hs, Tail(newOrder))

\* A toggle that only ever adds the date.
ToggledHabitAddOnly(habit, habitId, date) ==
    IF habit.id # habitId THEN habit
    ELSE Spread(habit, [completedDates |-> SetAdd(habit.completedDates, date)])

\* The body of toggleDate's map callback, for one habit.
ToggledHabit(habit, habitId, date) ==
    IF habit.id # habitId THEN habit
    ELSE LET newCompletedDates == NewSet(ArrayFrom(habit.completedDates))
         IN Spread(habit, [completedDates |->
                IF SetHas(newCompletedDates, date)
                THEN SetDelete(newCompletedDates, date)
                ELSE SetAdd(newCompletedDates, date)])

\* ------------------------------------------------------------- the store

VARIABLES
    habits,            \* Habit[]
    viewMode,          \* 'weekly' | 'overview'
    selectMode,        \* boolean
    selectedHabits,    \* Set<string>
    habitToDelete,     \* string | 'bulk' | null
    habitToColor,      \* string | 'bulk' | null
    noteModalHabitId,  \* string | null
    notified,          \* the states handed to the store's subscribers by the
                       \* last action, one per set() call, in call order
    upload,            \* the run of uploadHabits: pc is where it stands, file
                       \* the File it was called with, prompted whether
                       \* confirm() was shown, calls the number of setHabits
                       \* calls it made, alert the alert it ended with
    op,                \* single-call specification: the call made, or NoCall
    pre,               \* single-call specification: the state before the call
    localStorage,      \* the item under STORAGE_KEY
    subscribers,       \* the number of savers initLocalStorageSync has subscribed
    lastSave,          \* how the last saveHabitsToStorage call ended
    clock,             \* the instant of new Date(), on the local calendar, and its milliseconds
    failedWrites       \* the number of localStorage.setItem calls that threw

syncVars == <<localStorage, subscribers, lastSave, clock, failedWrites>>

\* Whether a saver of initLocalStorageSync listens to the store.
subscribed == subscribers > 0

storeVars == <<habits, viewMode, selectMode, selectedHabits, habitToDelete, habitToColor, noteModalHabitId>>

\* The store's state object (what get() returns and subscribers receive).
State ==
    [habits |-> habits, viewMode |-> viewMode, selectMode |-> selectMode,
     selectedHabits |-> selectedHabits, habitToDelete |-> habitToDelete,
     habitToColor |-> habitToColor, noteModalHabitId |-> noteModalHabitId]

\* The store becomes the state object next.
Becomes(next) ==
    /\ habits' = next.habits
    /\ viewMode' = next.viewMode
    /\ selectMode' = next.selectMode
    /\ selectedHabits' = next.selectedHabits
    /\ habitToDelete' = next.habitToDelete
    /\ habitToColor' = next.habitToColor
    /\ noteModalHabitId' = next.noteModalHabitId

\* Object.assign({}, state, partial)
Merged(state, partial) ==
    [f \in DOMAIN state |-> IF f \in DOMAIN partial THEN partial[f] ELSE state[f]]

\* zustand's set(partial): the partial is merged into the state in one
\* assignment and every subscriber is then called once with the new state.
set(partial) ==
    /\ Becomes(Merged(State, partial))
    /\ notified' = <<Merged(State, partial)>>

NoCall == [name |-> "none"]

StoreInit ==
    /\ habits = <<>>
    /\ viewMode = "weekly"
    /\ selectMode = FALSE
    /\ selectedHabits = {}
    /\ habitToDelete = Null
    /\ habitToColor = Null
    /\ noteModalHabitId = Null
    /\ notified = <<>>

\* ------------------------------------------------------ the store actions

setHabits(list) == set([habits |-> list])

addHabit(habit) == set([habits |-> Append(habits, habit)])

updateHabit(id, updates) ==
    set([habits |-> [i \in DOMAIN habits |->
            IF habits[i].id = id THEN Spread(habits[i], updates) ELSE habits[i]]])

\* deleteHabit without the selection (as the older store of lib/store.ts has it).
deleteHabitKeepsSelection(id) == set([habits |-> WithoutId(habits, id)])

deleteHabit(id) ==
    set([habits |-> WithoutId(habits, id),
         selectedHabits |->
            NewSet(Without(ArrayFrom(selectedHabits), id))])

reorderHabits(newOrder) == set([habits |-> Reordered(habits, newOrder)])

toggleDate(habitId, date) ==
    set([habits |-> [i \in DOMAIN habits |-> ToggledHabit(habits[i], habitId, date)]])

setViewMode(mode) == set([viewMode |-> mode])

\* toggleSelectMode without the clearing of the selection.
toggleSelectModeKeeps == set([selectMode |-> ~selectMode])

toggleSelectMode ==
    set([selectMode |-> ~selectMode,
         selectedHabits |-> IF ~selectMode THEN selectedHabits ELSE {}])

\* An addSelectedHabit that also turns select mode on.
addSelectedHabitEnters(id) ==
    set([selectedHabits |-> SetAdd(NewSet(ArrayFrom(selectedHabits)), id),
         selectMode |-> TRUE])

addSelectedHabit(id) ==
    set([selectedHabits |-> SetAdd(NewSet(ArrayFrom(selectedHabits)), id)])

removeSelectedHabit(id) ==
    set([selectedHabits |-> SetDelete(NewSet(ArrayFrom(selectedHabits)), id)])

clearSelectedHabits == set([selectedHabits |-> {}])

selectAllHabits == set([selectedHabits |-> NewSet(IdsOf(habits))])

setHabitToDelete(id) == set([habitToDelete |-> id])

setHabitToColor(id) == set([habitToColor |-> id])

setNoteModalHabitId(id) == set([noteModalHabitId |-> id])

addNote(habitId, note) ==
    set([habits |-> [i \in DOMAIN habits |->
            IF habits[i].id = habitId THEN Spread(habits[i], [notes |-> note])
            ELSE habits[i]]])

\* ------------------------------------------- the storage serialisation

\* r.completedDates || [] for a stored habit: an array is truthy, a missing
\* key reads undefined.
DatesOrEmpty(r) == IF "completedDates" \in DOMAIN r THEN r.completedDates ELSE <<>>

serializeHabits(hs) ==
    [i \in DOMAIN hs |->
        Spread(hs[i], [completedDates |-> ArrayFrom(hs[i].completedDates)])]

\* A deserialisation that builds every habit with an empty set of dates.
deserializeHabitsNoDates(raw) ==
    [i \in DOMAIN raw |-> Spread(raw[i], [completedDates |-> NewSet(<<>>)])]

deserializeHabits(raw) ==
    [i \in DOMAIN raw |->
        Spread(raw[i], [completedDates |-> NewSet(DatesOrEmpty(raw[i]))])]

\* ------------------------------------------------------------ the import

\* A JSON value carries its type: t is "absent" (the key is not there),
\* "null", "string", "number", "array" or "object", and the value is under
\* a key of its type: the string s, the number's digits n, the array's
\* elements items, the object's present keys keys.
Absent == [t |-> "absent"]
JNull == [t |-> "null"]
Str(v) == [t |-> "string", s |-> v]
Num(v) == [t |-> "number", n |-> v]
Arr(v) == [t |-> "array", items |-> v]
Obj(v) == [t |-> "object", keys |-> v]

\* data.key of a parsed value: undefined unless data is an object with the key.
Field(data, key) ==
    IF data.t = "object" /\ key \in DOMAIN data.keys THEN data.keys[key] ELSE Absent

\* ToBoolean of a JSON value.
Truthy(j) ==
    CASE j.t \in {"absent", "null"} -> FALSE
      [] j.t = "string" -> j.s # ""
      [] j.t = "number" -> j.n # "0"
      [] OTHER -> TRUE

\* !data || typeof data !== 'object' (an array is an object too; null is
\* caught by !data).
NotAnObject(data) == ~Truthy(data) \/ data.t \notin {"object", "array"}

\* version.startsWith('1.') for the version strings of the model.
StartsWithOneDot(version) == version \in {"1.0.0", "1.4.2"}

\* Date.now(), in digits: the milliseconds of the clock after the instant
\* 1767312000000.
Now == "17673120000" \o (IF clock.ms < 10 THEN "0" ELSE "") \o ToString(clock.ms)

\* The alerts of uploadHabits, each the sequence of its parts.
InvalidJsonAlert == <<"Invalid JSON file. Please select a valid backup file.">>
ImportFailed(message) == <<"Import failed: ", message>>
ImportedAlert == <<"Successfully imported">>

\* The callback of data.habits.map(...), for an element that is an object.
ImportedHabit(h) ==
    [id |-> Get(h, "id"),
     name |-> OrElse(Get(h, "name"), "Untitled"),
     color |-> OrElse(Get(h, "color"), "green"),
     completedDates |-> NewSet(DatesOrEmpty(h)),
     notes |-> OrElse(Get(h, "notes"), ""),
     createdAt |-> OrElse(Get(h, "createdAt"), Now)]

\* data.habits.map(...): reading h.id of a null element throws a TypeError.
MapThrows(elements) == \E i \in DOMAIN elements : elements[i].t = "null"
ImportedHabits(elements) == [i \in DOMAIN elements |-> ImportedHabit(elements[i].keys)]

NoFile == [read |-> "none"]

UploadInit ==
    upload = [pc |-> "idle", file |-> NoFile, prompted |-> FALSE, calls |-> 0,
              alert |-> <<>>, behind |-> NoFile, overlapped |-> FALSE]

Pending == {"reading", "confirm"}
Terminal == {"applied", "rejected", "cancelled"}

\* The catch block: the error is alerted and nothing else happens.
Rejected(alert) ==
    /\ upload' = [upload EXCEPT !.pc = "rejected", !.alert = alert]
    /\ UNCHANGED <<storeVars, notified>>

\* A version of the tail that replaces the list before it validates it.
ApplyImportUnchecked(data) ==
    IF MapThrows(Field(data, "habits").items)
    THEN Rejected(ImportFailed("Cannot read properties of null (reading 'id')"))
    ELSE /\ setHabits(ImportedHabits(Field(data, "habits").items))
         /\ upload' =
              IF ImportedHabits(Field(data, "habits").items) = <<>>
              THEN [upload EXCEPT !.pc = "rejected", !.calls = @ + 1,
                                  !.alert = ImportFailed("No habits found in file")]
              ELSE [upload EXCEPT !.pc = "applied", !.calls = @ + 1, !.alert = ImportedAlert]

\* A version of the tail that applies the habits one by one and stops at an
\* element it cannot map.
ApplyImportPartial(data) ==
    LET elements == Field(data, "habits").items
        good == {i \in DOMAIN elements : \A j \in 1..i : elements[j].t # "null"}
        mapped == ImportedHabits(SubSeq(elements, 1, Cardinality(good)))
    IN IF mapped = <<>> THEN Rejected(ImportFailed("No habits found in file"))
       ELSE /\ setHabits(mapped)
            /\ upload' = [upload EXCEPT !.pc = "applied", !.calls = @ + 1,
                                        !.alert = ImportedAlert]

\* A version of the tail that adds the habits of the file to the list.
ApplyImportAppending(data) ==
    IF MapThrows(Field(data, "habits").items)
    THEN Rejected(ImportFailed("Cannot read properties of null (reading 'id')"))
    ELSE IF ImportedHabits(Field(data, "habits").items) = <<>>
    THEN Rejected(ImportFailed("No habits found in file"))
    ELSE /\ setHabits(habits \o ImportedHabits(Field(data, "habits").items))
         /\ upload' = [upload EXCEPT !.pc = "applied", !.calls = @ + 1,
                                     !.alert = ImportedAlert]

\* The tail of uploadHabits, from the mapping of the elements on.
ApplyImport(data) ==
    IF MapThrows(Field(data, "habits").items)
    THEN Rejected(ImportFailed("Cannot read properties of null (reading 'id')"))
    ELSE IF ImportedHabits(Field(data, "habits").items) = <<>>
    THEN Rejected(ImportFailed("No habits found in file"))
    ELSE /\ setHabits(ImportedHabits(Field(data, "habits").items))
         /\ upload' = [upload EXCEPT !.pc = "applied", !.calls = @ + 1,
                                     !.alert = ImportedAlert]

\* uploadHabits(file) up to its await: the read of the file is started.
UploadStart(file) ==
    /\ upload.pc \notin Pending
    /\ upload' = [pc |-> "reading", file |-> file, prompted |-> FALSE, calls |-> 0,
                  alert |-> <<>>, behind |-> upload.behind, overlapped |-> FALSE]
    /\ UNCHANGED <<storeVars, notified>>

\* uploadHabits(file) called while the read of an earlier call is pending.
\* upload follows the call whose read settles first; the file of the other
\* call waits in upload.behind.
UploadStartOverlapped(file, first) ==
    /\ upload.pc = "reading"
    /\ upload.behind = NoFile
    /\ upload' = IF first
                 THEN [upload EXCEPT !.file = file, !.behind = upload.file]
                 ELSE [upload EXCEPT !.behind = file]
    /\ UNCHANGED <<storeVars, notified>>

\* The call that upload follows has ended, and the read of the other call
\* is the next to settle.
UploadTurn ==
    /\ upload.pc \in Terminal
    /\ upload.behind # NoFile
    /\ upload' = [pc |-> "reading", file |-> upload.behind, prompted |-> FALSE,
                  calls |-> 0, alert |-> <<>>, behind |-> NoFile, overlapped |-> TRUE]
    /\ UNCHANGED <<storeVars, notified>>

\* uploadHabits after file.text() has settled, up to its end or to confirm().
UploadResume ==
    /\ upload.pc = "reading"
    /\ LET file == upload.file
           data == file.data
           version == Field(data, "version")
       IN IF file.read = "error"
          THEN Rejected(ImportFailed("The requested file could not be read"))
          ELSE IF file.parse = "SyntaxError" THEN Rejected(InvalidJsonAlert)
          ELSE IF NotAnObject(data) THEN Rejected(ImportFailed("Invalid JSON format"))
          ELSE IF Field(data, "habits").t # "array"
          THEN Rejected(ImportFailed("Missing or invalid habits array"))
          ELSE IF Truthy(version) /\ version.t # "string"
          THEN Rejected(ImportFailed("data.version.startsWith is not a function"))
          ELSE IF Truthy(version) /\ ~StartsWithOneDot(version.s)
          THEN /\ upload' = [upload EXCEPT !.pc = "confirm", !.prompted = TRUE]
               /\ UNCHANGED <<storeVars, notified>>
          ELSE ApplyImport(data)

\* The user's answer to confirm(): on Cancel uploadHabits returns.
UploadConfirm(proceed) ==
    /\ upload.pc = "confirm"
    /\ IF proceed THEN ApplyImport(upload.file.data)
       ELSE /\ upload' = [upload EXCEPT !.pc = "cancelled"]
            /\ UNCHANGED <<storeVars, notified>>

\* ------------------------------------------------- the storage and sync

\* The item under STORAGE_KEY: absent, the empty string, a text that is not
\* JSON, a text that parses to data, or a storage whose getItem throws.
NoItem == [item |-> "absent"]
EmptyItem == [item |-> "empty"]
UnreadableItem == [item |-> "throws"]
BadItem == [item |-> "text", parse |-> "SyntaxError"]
JsonItem(data) == [item |-> "text", parse |-> "ok", data |-> data]

\* new Date().toISOString()
IsoNow == "2026-01-02T00:00:00.000Z"

\* JSON.stringify of an array of objects whose present keys are all defined.
Stringified(objects) == Arr([i \in DOMAIN objects |-> Obj(objects[i])])

\* A payload that holds the first habit only.
StoredPayloadFirstOnly(hs) ==
    Obj([version |-> Num("1"),
         habits |-> Stringified(serializeHabits(IF hs = <<>> THEN hs ELSE <<hs[1]>>)),
         timestamp |-> Str(IsoNow)])

\* The payload saveHabitsToStorage builds.
StoredPayload(hs) ==
    Obj([version |-> Num("1"), habits |-> Stringified(serializeHabits(hs)),
         timestamp |-> Str(IsoNow)])

\* A save whose exception is not caught.
saveHabitsToStorageUncaught(hs, ok) ==
    IF ok
    THEN localStorage' = JsonItem(StoredPayload(hs)) /\ lastSave' = "ok"
         /\ UNCHANGED failedWrites
    ELSE UNCHANGED localStorage /\ lastSave' = "thrown"
         /\ failedWrites' = failedWrites + 1

\* saveHabitsToStorage(habits); ok is whether localStorage.setItem returned
\* (it throws when the quota is exceeded or the storage is unavailable).
saveHabitsToStorage(hs, ok) ==
    IF ok
    THEN localStorage' = JsonItem(StoredPayload(hs)) /\ lastSave' = "ok"
         /\ UNCHANGED failedWrites
    ELSE UNCHANGED localStorage /\ lastSave' = "failed"
         /\ failedWrites' = failedWrites + 1

\* What a load yields: null, a habits list, or (uncaught) an exception.
LoadedNull == [kind |-> "null"]
LoadedHabits(hs) == [kind |-> "habits", habits |-> hs]
LoadThrew == [kind |-> "throws"]

\* { ...r } of a parsed element: its keys when it is an object, none when it
\* is null or a number.
ElementObject(e) == IF e.t = "object" THEN e.keys ELSE <<>>

\* The try block of loadHabitsFromStorage.
LoadOrThrow(stored) ==
    IF stored.item = "throws" THEN LoadThrew
    ELSE IF stored.item \in {"absent", "empty"} THEN LoadedNull
    ELSE IF stored.parse = "SyntaxError" THEN LoadThrew
    ELSE IF ~Truthy(stored.data) \/ Field(stored.data, "habits").t # "array" THEN LoadedNull
    ELSE LET elements == Field(stored.data, "habits").items
         IN IF \E i \in DOMAIN elements : elements[i].t = "null" THEN LoadThrew
            ELSE LoadedHabits(deserializeHabits(
                    [i \in DOMAIN elements |-> ElementObject(elements[i])]))

\* A load without its catch block.
loadHabitsFromStorageUncaught(stored) == LoadOrThrow(stored)

loadHabitsFromStorage(stored) ==
    IF LoadOrThrow(stored) = LoadThrew THEN LoadedNull ELSE LoadOrThrow(stored)

\* The local calendar: its days in order, each with its date key and its
\* length in hours (the day the clocks go back has 25, the day they go
\* forward 23). An instant is a calendar and the hours since its start.
Winter ==
    << [key |-> "2024-01-09", hours |-> 24], [key |-> "2024-01-10", hours |-> 24],
       [key |-> "2024-01-11", hours |-> 24] >>
FallBack ==
    << [key |-> "2024-10-26", hours |-> 24], [key |-> "2024-10-27", hours |-> 25],
       [key |-> "2024-10-28", hours |-> 24] >>
SpringForward ==
    << [key |-> "2024-03-30", hours |-> 24], [key |-> "2024-03-31", hours |-> 23],
       [key |-> "2024-04-01", hours |-> 24] >>

\* 86400000 ms, in hours.
DayMs == 24

RECURSIVE HoursBefore(_, _)
HoursBefore(days, i) == IF i <= 1 THEN 0 ELSE HoursBefore(days, i - 1) + days[i - 1].hours

\* The day of the calendar an instant falls on.
DayOf(date) ==
    CHOOSE i \in DOMAIN date.days :
        /\ HoursBefore(date.days, i) <= date.hour
        /\ date.hour < HoursBefore(date.days, i) + date.days[i].hours

\* formatDate(date): the key of the local day of the instant.
formatDate(date) == date.days[DayOf(date)].key

\* new Date(Date.now() - ms)
Earlier(date, ms) == [date EXCEPT !.hour = @ - ms]

\* generateHabitId()
generateHabitId == "habit-" \o Now

\* The habit initLocalStorageSync creates when nothing is stored.
defaultHabit ==
    [id |-> generateHabitId, name |-> "Membaca Buku", color |-> "green",
     completedDates |-> NewSet(<<formatDate(Earlier(clock, DayMs)), formatDate(clock)>>),
     createdAt |-> Now, notes |-> ""]

\* No sync: the page has not mounted.
SyncOff ==
    /\ localStorage = NoItem
    /\ subscribers = 0
    /\ lastSave = "none"
    /\ clock = [days |-> Winter, hour |-> 60, ms |-> 0]
    /\ failedWrites = 0

\* A subscriber that saves the habits of the state before the change.
NotifyStale(ok) == saveHabitsToStorage(habits, ok)

\* The subscriber of initLocalStorageSync, called by set() with the new
\* state (every store action makes one set() call).
Notify(ok) == saveHabitsToStorage(notified'[1].habits, ok)

\* An initLocalStorageSync that seeds only when nothing could be loaded, and
\* takes a loaded list as it is, empty or not.
initLocalStorageSyncKeepsEmpty(ok) ==
    /\ LET stored == loadHabitsFromStorage(localStorage)
       IN IF stored.kind = "habits"
          THEN /\ set([habits |-> stored.habits])
               /\ IF subscribed THEN saveHabitsToStorage(stored.habits, ok)
                  ELSE UNCHANGED <<localStorage, lastSave, failedWrites>>
          ELSE /\ set([habits |-> <<defaultHabit>>])
               /\ saveHabitsToStorage(<<defaultHabit>>, ok)
    /\ subscribers' = subscribers + 1
    /\ UNCHANGED <<clock, upload>>

\* initLocalStorageSync(): the page's mount effect.
initLocalStorageSync(ok) ==
    /\ LET stored == loadHabitsFromStorage(localStorage)
       IN IF stored.kind = "habits" /\ Len(stored.habits) > 0
          THEN /\ set([habits |-> stored.habits])
               /\ IF subscribed THEN saveHabitsToStorage(stored.habits, ok)
                  ELSE UNCHANGED <<localStorage, lastSave, failedWrites>>
          ELSE /\ set([habits |-> <<defaultHabit>>])
               /\ saveHabitsToStorage(<<defaultHabit>>, ok)
    /\ subscribers' = subscribers + 1
    /\ UNCHANGED <<clock, upload>>

\* The page is reloaded: the store is constructed anew and nothing is
\* subscribed; the storage stays.
Reload ==
    /\ subscribed
    /\ Becomes([habits |-> <<>>, viewMode |-> "weekly", selectMode |-> FALSE,
                selectedHabits |-> {}, habitToDelete |-> Null, habitToColor |-> Null,
                noteModalHabitId |-> Null])
    /\ notified' = <<>>
    /\ subscribers' = 0
    /\ UNCHANGED <<localStorage, lastSave, clock, failedWrites, upload>>

\* -------------------------------------------- the card header, the export

\* String.prototype.trim, for the texts of the model: the texts of blanks
\* only, and a name with blanks around it.
trim(text) ==
    CASE text \in {"", " ", "   "} -> ""
      [] text \in {" Walk ", "Walk  "} -> "Walk"
      [] OTHER -> text

\* The name the card header shows.
displayName(habitName) == OrElse(trim(habitName), "Untitled")

\* A save that stores the shown name.
handleSaveUntitled(id, editValue) == updateHabit(id, [name |-> displayName(editValue)])

\* handleSave of the card header of habit id, with onNameChange =
\* name => updateHabit(habit.id, { name }).
handleSave(id, editValue) == updateHabit(id, [name |-> trim(editValue)])

\* JSON.stringify of an object literal: a key whose value is undefined is
\* left out.
Defined(o) == [k \in {k \in DOMAIN o : k = "completedDates" \/ o[k] # Undefined} |-> o[k]]

\* The serializedHabits of downloadHabits.
serializedHabits(hs) ==
    [i \in DOMAIN hs |->
        Defined([id |-> Get(hs[i], "id"), name |-> Get(hs[i], "name"),
                 color |-> Get(hs[i], "color"),
                 completedDates |-> ArrayFrom(hs[i].completedDates),
                 notes |-> Get(hs[i], "notes"), createdAt |-> Get(hs[i], "createdAt")])]

\* JSON.parse(JSON.stringify(exportData, null, 2))
exportData(hs) ==
    Obj([version |-> Str("1.0.0"), exportedAt |-> Str(IsoNow),
         habits |-> Stringified(serializedHabits(hs))])

\* An export that does not look at the length of the list.
downloadHabitsUnchecked(hs) == [alert |-> <<>>, documents |-> <<exportData(hs)>>]

\* downloadHabits() on the habits hs: the alert shown and the documents
\* handed to the browser as a download (the DOM calls are taken to succeed).
downloadHabits(hs) ==
    IF Len(hs) = 0 THEN [alert |-> <<"No habits to download">>, documents |-> <<>>]
    ELSE [alert |-> <<>>, documents |-> <<exportData(hs)>>]

\* hasNote(habitId) of the store: Boolean(habit?.notes && habit.notes.length > 0)
\* on the first habit with the id.
hasNote(habitId) ==
    LET found == {i \in DOMAIN habits : habits[i].id = habitId}
        notes == IF found = {} THEN Undefined
                 ELSE Get(habits[CHOOSE i \in found : \A j \in found : i <= j], "notes")
    IN ~Falsy(notes) /\ notes # ""

\* ------------------------------------------ the store of lib/store.ts
\* useHabitStore has the fields habits, viewMode, selectMode and
\* selectedHabits; its addHabit, updateHabit, toggleDate and setViewMode are
\* written as those of useHabits are.

useHabitStore_deleteHabit(id) == set([habits |-> WithoutId(habits, id)])

useHabitStore_toggleSelectMode ==
    set([selectMode |-> ~selectMode, selectedHabits |-> NewSet(<<>>)])

toggleSelection(id) ==
    set([selectedHabits |->
            IF SetHas(selectedHabits, id)
            THEN SetDelete(NewSet(ArrayFrom(selectedHabits)), id)
            ELSE SetAdd(NewSet(ArrayFrom(selectedHabits)), id)])

selectAll == set([selectedHabits |-> NewSet(IdsOf(habits))])

unselectAll == set([selectedHabits |-> NewSet(<<>>)])

bulkDelete ==
    set([habits |-> SelectSeq(habits, LAMBDA h : ~SetHas(selectedHabits, h.id)),
         selectedHabits |-> NewSet(<<>>),
         selectMode |-> FALSE])

bulkChangeColor(color) ==
    set([habits |-> [i \in DOMAIN habits |->
            IF SetHas(selectedHabits, habits[i].id)
            THEN Spread(habits[i], [color |-> color]) ELSE habits[i]],
         selectedHabits |-> NewSet(<<>>),
         selectMode |-> FALSE])

\* ---------------------------------------------- the handlers of the page

\* handleAddHabit() of the page with the add button; randomColor is the
\* color Math.random picks among the colors other than the last habit's.
\* The page's store appends the habit as addHabit does.
handleAddHabit(randomColor) ==
    LET lastColor == IF habits = <<>> THEN Undefined ELSE Get(habits[Len(habits)], "color")
    IN /\ randomColor # lastColor
       /\ addHabit([id |-> "habit-" \o Now, name |-> "New Activity", color |-> randomColor,
                    completedDates |-> NewSet(<<>>), createdAt |-> Now])

\* The state after deleteHabit(id) is called in the state given.
AfterDelete(state, id) ==
    Merged(state,
           [habits |-> WithoutId(state.habits, id),
            selectedHabits |-> NewSet(Without(ArrayFrom(state.selectedHabits), id))])

\* The state after updateHabit(id, updates) is called in the state given.
AfterUpdate(state, id, updates) ==
    Merged(state,
           [habits |-> [i \in DOMAIN state.habits |->
                IF state.habits[i].id = id THEN Spread(state.habits[i], updates)
                ELSE state.habits[i]]])

\* ids.forEach(id => deleteHabit(id)): the states after each call, in call
\* order; each call works on the state the call before it left.
RECURSIVE DeleteTrace(_, _)
DeleteTrace(state, ids) ==
    IF ids = <<>> THEN <<>>
    ELSE <<AfterDelete(state, Head(ids))>>
            \o DeleteTrace(AfterDelete(state, Head(ids)), Tail(ids))

\* ids.forEach(id => updateHabit(id, updates))
RECURSIVE UpdateTrace(_, _, _)
UpdateTrace(state, ids, updates) ==
    IF ids = <<>> THEN <<>>
    ELSE <<AfterUpdate(state, Head(ids), updates)>>
            \o UpdateTrace(AfterUpdate(state, Head(ids), updates), Tail(ids), updates)

\* The state a sequence of set() calls ends in.
LastOf(state, trace) == IF trace = <<>> THEN state ELSE trace[Len(trace)]

\* The orders a Set can iterate its elements in.
Orderings(s) == {o \in [1..Cardinality(s) -> s] : Range(o) = s}

\* onEnterSelectMode of the card of habit id: toggleSelectMode() and then
\* addSelectedHabit(id), when the page was rendered with select mode off.
onEnterSelectMode(id) ==
    /\ ~selectMode
    /\ LET toggled ==
               Merged(State,
                      [selectMode |-> ~selectMode,
                       selectedHabits |-> IF ~selectMode THEN selectedHabits ELSE NewSet(<<>>)])
           added ==
               Merged(toggled,
                      [selectedHabits |-> SetAdd(NewSet(ArrayFrom(toggled.selectedHabits)), id)])
       IN /\ Becomes(added)
          /\ notified' = <<toggled, added>>

\* handleConfirmDelete() of the page; order is the iteration order of the
\* selection the page rendered with.
handleConfirmDelete(order) ==
    LET ids == IF habitToDelete = "bulk" THEN order
               ELSE IF ~Falsy(habitToDelete) THEN <<habitToDelete>>
               ELSE <<>>
        deletes == DeleteTrace(State, ids)
        closed == Merged(LastOf(State, deletes), [habitToDelete |-> Null])
    IN /\ Becomes(closed)
       /\ notified' = Append(deletes, closed)

\* A color choice that recolors every habit of the list.
handleColorSelectAll(color, order) ==
    LET updates == UpdateTrace(State, IdsOf(habits), [color |-> color])
        closed == Merged(LastOf(State, updates), [habitToColor |-> Null])
    IN /\ Becomes(closed)
       /\ notified' = Append(updates, closed)

\* handleColorSelect(color) of the color picker, with colorChangeType =
\* habitToColor and onClose = () => setHabitToColor(null).
handleColorSelect(color, order) ==
    LET ids == IF habitToColor = "bulk" THEN order
               ELSE IF ~Falsy(habitToColor) THEN <<habitToColor>>
               ELSE <<>>
        updates == UpdateTrace(State, ids, [color |-> color])
        closed == Merged(LastOf(State, updates), [habitToColor |-> Null])
    IN /\ Becomes(closed)
       /\ notified' = Append(updates, closed)

\* ------------------------------------------------------------ the inputs

HabitIds == {"a", "b", "c"}

\* ColorKey
ColorKeys ==
    {"green", "blue", "purple", "pink", "orange", "yellow", "teal", "red", "indigo", "gray"}

\* The texts of the name input when it is saved.
EditValues == {"", "   ", " Walk ", "Run"}

DateKeys == {"2024-01-10", "2024-01-11"}

ViewModes == {"weekly", "overview"}

\* The habit a caller of addHabit builds.
NewHabit(id) ==
    [id |-> id, name |-> "New Activity", color |-> "green", completedDates |-> {},
     createdAt |-> "1704931200000"]

\* Habits with every field in use; two of them share the id "a".
HabitPool ==
    { [id |-> "a", name |-> "Run", color |-> "green", completedDates |-> {"2024-01-10"},
       notes |-> "memo", createdAt |-> "1704931200000"],
      [id |-> "b", name |-> "", color |-> "blue",
       completedDates |-> {"2024-01-11", "2024-01-10"}, createdAt |-> "1704931200001"],
      NewHabit("c"),
      [id |-> "a", name |-> "Read", color |-> "red", completedDates |-> {},
       notes |-> "", createdAt |-> "1704931200002"] }

\* The sequences of at most n elements of S.
SeqsUpTo(S, n) == UNION {[1..k -> S] : k \in 0..n}

NoRepeat(s) == \A i, j \in DOMAIN s : s[i] = s[j] => i = j

\* Elements of a backup's habits array: one with every key (and a date
\* listed twice), one with the id alone.
FullElement ==
    Obj([id |-> "a", name |-> "Run", color |-> "blue",
         completedDates |-> <<"2024-01-10", "2024-01-11", "2024-01-10">>,
         notes |-> "memo", createdAt |-> "1704931200000"])
BareElement == Obj([id |-> "b"])

\* Stored habits (HabitJSON): as serialised, with a date listed twice, and
\* with no completedDates array.
StoredPool ==
    { FullElement.keys, BareElement.keys,
      [id |-> "c", name |-> "Walk", color |-> "teal", completedDates |-> <<>>, notes |-> ""] }

JsonFile(data) == [read |-> "ok", parse |-> "ok", data |-> data]

\* The files uploadHabits is called with: one that cannot be read, one that
\* is not JSON ("{not json"), values that are no object, objects without a
\* habits array ({"foo": 1}), backups with no habit ({"habits": []}), and
\* backups with habits and no version, a 1.x version, another version, a
\* numeric version, an empty version, a null element, a habit whose color
\* is no theme key, a habit whose name is the empty string, and a backup
\* that lists one id twice and a habit with no id, and a habit whose id is
\* the word "bulk".
ImportFiles ==
    { [read |-> "error"],
      [read |-> "ok", parse |-> "SyntaxError"],
      JsonFile(JNull),
      JsonFile(Num("5")),
      JsonFile(Arr(<<>>)),
      JsonFile(Obj([foo |-> Num("1")])),
      JsonFile(Obj([habits |-> Str("none")])),
      JsonFile(Obj([habits |-> Arr(<<>>)])),
      JsonFile(Obj([habits |-> Arr(<<BareElement>>)])),
      JsonFile(Obj([version |-> Str("1.0.0"), habits |-> Arr(<<FullElement, BareElement>>)])),
      JsonFile(Obj([version |-> Str("2.0.0"), habits |-> Arr(<<BareElement, FullElement>>)])),
      JsonFile(Obj([version |-> Str("2.0.0"), habits |-> Arr(<<>>)])),
      JsonFile(Obj([version |-> Num("2"), habits |-> Arr(<<FullElement>>)])),
      JsonFile(Obj([version |-> Str(""), habits |-> Arr(<<FullElement>>)])),
      JsonFile(Obj([version |-> Str("1.0.0"), habits |-> Arr(<<FullElement, JNull>>)])),
      JsonFile(Obj([version |-> Str("1.0.0"),
                    habits |-> Arr(<<Obj([id |-> "b", name |-> "Swim", color |-> "magenta"])>>)])),
      JsonFile(Obj([habits |-> Arr(<<Obj([id |-> "c", name |-> "", color |-> "red"])>>)])),
      JsonFile(Obj([version |-> Str("1.0.0"),
                    habits |-> Arr(<<BareElement, BareElement, Obj([name |-> "Swim"])>>)])),
      JsonFile(Obj([version |-> Str("1.0.0"),
                    habits |-> Arr(<<Obj([id |-> "bulk", name |-> "Swim"])>>)])) }

\* What the storage holds when the page mounts: nothing, an empty text, a
\* text that is not JSON, null, a number, objects without a habits array,
\* payloads with no habit, with habits and with a null element; and a
\* storage that cannot be read.
StoredItems ==
    { NoItem, EmptyItem, UnreadableItem, BadItem,
      JsonItem(JNull),
      JsonItem(Num("5")),
      JsonItem(Obj([version |-> Num("1")])),
      JsonItem(Obj([version |-> Num("1"), habits |-> Str("none")])),
      JsonItem(Obj([version |-> Num("1"), habits |-> Arr(<<>>)])),
      JsonItem(Obj([version |-> Num("1"), habits |-> Arr(<<FullElement, BareElement>>)])),
      JsonItem(Obj([version |-> Num("1"), habits |-> Arr(<<FullElement, JNull>>)])) }

\* The instants the page mounts at: noon of the third day of a calendar
\* without a change of clocks, the last hour of a 25-hour day and the first
\* hour after a 23-hour day.
Clocks ==
    { [days |-> Winter, hour |-> 60, ms |-> 0], [days |-> FallBack, hour |-> 48, ms |-> 0],
      [days |-> SpringForward, hour |-> 47, ms |-> 0] }

\* generateHabitId() is "habit-" and the time: an id made later is a larger
\* one. The ids a, b, c stand for three ids made in this order.
LaterIds(id) == CASE id = "a" -> {"b", "c"} [] id = "b" -> {"c"} [] OTHER -> {}

\* The partial habits updateHabit is called with (a rename, a recolor, and
\* a Partial<Habit> that carries id and createdAt).
Updates ==
    {[name |-> ""], [name |-> "Walk"], [color |-> "pink"],
     [id |-> "z", createdAt |-> "0"]}

\* The id orders reorderHabits is called with: every order of distinct known
\* ids, an order that repeats an id and one that names an unknown id.
NewOrders ==
    {o \in SeqsUpTo(HabitIds, Cardinality(HabitIds)) : NoRepeat(o)}
        \cup {<<"a", "a">>, <<"z", "b">>}

\* ---------------------------------------------------- the specifications

vars == <<habits, viewMode, selectMode, selectedHabits, habitToDelete, habitToColor, noteModalHabitId, notified, op, pre, upload, localStorage, subscribers, lastSave, clock, failedWrites>>

\* A store action of a behaviour of the running application.
Plain(A) == A /\ UNCHANGED <<op, pre, upload, syncVars>>

Init == StoreInit /\ UploadInit /\ SyncOff /\ op = NoCall /\ pre = NoCall

Next ==
    \/ \E list \in {<<>>, <<NewHabit("b"), NewHabit("a")>>} : Plain(setHabits(list))
    \/ \E id \in {"a", "b"} : Len(habits) < MaxStoreLen /\ Plain(addHabit(NewHabit(id)))
    \/ Plain(updateHabit("a", [name |-> ""]))
    \/ \E id \in {"a", "b"} : Plain(deleteHabit(id))
    \/ \E newOrder \in {<<"b", "a">>, <<"a">>} : Plain(reorderHabits(newOrder))
    \/ Plain(toggleDate("a", "2024-01-10"))
    \/ \E mode \in ViewModes : Plain(setViewMode(mode))
    \/ Plain(toggleSelectMode)
    \/ \E id \in {"a", "b"} : Plain(addSelectedHabit(id))
    \/ \E id \in {"a", "b"} : Plain(removeSelectedHabit(id))
    \/ Plain(clearSelectedHabits)
    \/ Plain(selectAllHabits)
    \/ \E id \in {Null, "bulk"} : Plain(setHabitToDelete(id))
    \/ \E id \in {Null, "bulk"} : Plain(setHabitToColor(id))
    \/ \E id \in {Null, "a"} : Plain(setNoteModalHabitId(id))
    \/ Plain(addNote("a", "memo"))

\* The application from the store's construction on, driven by any sequence
\* of store actions.
Spec == Init /\ [][Next]_vars

\* The single-call specification: the store is in any state of a bounded
\* set (every one of them a state the setters lead to), and one store action
\* is called on it; op records the call and pre the state it was made in.
Traced(A, call) ==
    op = NoCall /\ A /\ op' = call /\ pre' = State /\ UNCHANGED <<upload, syncVars>>

\* The same toggleDate call made a second time, right after the first.
ToggleAgain ==
    /\ op.name = "toggleDate"
    /\ op.times = 1
    /\ toggleDate(op.habitId, op.date)
    /\ op' = [op EXCEPT !.times = 2]
    /\ UNCHANGED <<pre, upload, syncVars>>

\* serializeHabits called on the list of the store.
SerializeCall ==
    /\ Traced(UNCHANGED <<storeVars, notified>>,
              [name |-> "serializeHabits", result |-> serializeHabits(habits)])

\* deserializeHabits called on what serializeHabits returned.
DeserializeResult ==
    /\ op.name = "serializeHabits"
    /\ op' = [name |-> "deserializeHabits", raw |-> op.result,
              result |-> deserializeHabits(op.result), roundTrip |-> TRUE]
    /\ UNCHANGED <<storeVars, notified, pre, upload, syncVars>>

\* deserializeHabits called on a stored array.
DeserializeStored(raw) ==
    /\ Traced(UNCHANGED <<storeVars, notified>>,
              [name |-> "deserializeHabits", raw |-> raw,
               result |-> deserializeHabits(raw), roundTrip |-> FALSE])

\* A color is picked in the color picker that setHabitToColor has opened.
ColorSelected ==
    /\ op.name = "setHabitToColor"
    /\ habitToColor # Null
    /\ \E order \in Orderings(selectedHabits) : handleColorSelect("teal", order)
    /\ op' = [name |-> "handleColorSelect", target |-> habitToColor, color |-> "teal"]
    /\ UNCHANGED <<pre, upload, syncVars>>

\* hasNote called after a note has been set.
HasNoteCall ==
    /\ op.name = "addNote"
    /\ \E id \in HabitIds : op' = [name |-> "hasNote", habitId |-> id, result |-> hasNote(id)]
    /\ UNCHANGED <<storeVars, notified, pre, upload, syncVars>>

\* downloadHabits called on the list of the store.
DownloadCall ==
    /\ Traced(UNCHANGED <<storeVars, notified>>,
              [name |-> "downloadHabits", alert |-> downloadHabits(habits).alert,
               documents |-> downloadHabits(habits).documents])

\* uploadHabits called on the file that downloadHabits produced.
ImportExported ==
    /\ op.name = "downloadHabits"
    /\ upload.pc = "idle"
    /\ op.documents # <<>>
    /\ UploadStart(JsonFile(op.documents[1]))
    /\ UNCHANGED <<op, pre, syncVars>>

ImportResumed ==
    /\ op.name = "downloadHabits"
    /\ UploadResume
    /\ UNCHANGED <<op, pre, syncVars>>

StepInit ==
    /\ habits \in SeqsUpTo(HabitPool, MaxHabits)
    /\ selectedHabits \in {{}, {"a"}, {"a", "c"}}
    /\ selectMode \in BOOLEAN
    /\ \/ viewMode = "weekly" /\ habitToDelete = Null /\ habitToColor = Null
          /\ noteModalHabitId = Null
       \/ viewMode = "overview" /\ habitToDelete = "bulk" /\ habitToColor = "a"
          /\ noteModalHabitId = "b"
    /\ notified = <<>>
    /\ UploadInit
    /\ SyncOff
    /\ op = NoCall
    /\ pre = NoCall

StepNext ==
    \/ \E list \in SeqsUpTo(HabitPool, 1) :
        Traced(setHabits(list), [name |-> "setHabits", list |-> list])
    \/ \E habit \in HabitPool : Traced(addHabit(habit), [name |-> "addHabit", habit |-> habit])
    \/ \E id \in HabitIds, updates \in Updates :
        Traced(updateHabit(id, updates), [name |-> "updateHabit", id |-> id, updates |-> updates])
    \/ \E id \in HabitIds : Traced(deleteHabit(id), [name |-> "deleteHabit", id |-> id])
    \/ \E newOrder \in NewOrders :
        Traced(reorderHabits(newOrder), [name |-> "reorderHabits", newOrder |-> newOrder])
    \/ \E id \in HabitIds, date \in DateKeys :
        Traced(toggleDate(id, date), [name |-> "toggleDate", habitId |-> id, date |-> date, times |-> 1])
    \/ ToggleAgain
    \/ \E mode \in ViewModes : Traced(setViewMode(mode), [name |-> "setViewMode", mode |-> mode])
    \/ Traced(toggleSelectMode, [name |-> "toggleSelectMode"])
    \/ \E id \in HabitIds : Traced(addSelectedHabit(id), [name |-> "addSelectedHabit", id |-> id])
    \/ \E id \in HabitIds :
        Traced(removeSelectedHabit(id), [name |-> "removeSelectedHabit", id |-> id])
    \/ Traced(clearSelectedHabits, [name |-> "clearSelectedHabits"])
    \/ Traced(selectAllHabits, [name |-> "selectAllHabits"])
    \/ \E id \in {Null, "bulk", "a"} :
        Traced(setHabitToDelete(id), [name |-> "setHabitToDelete", id |-> id])
    \/ \E id \in {Null, "bulk", "a"} :
        Traced(setHabitToColor(id), [name |-> "setHabitToColor", id |-> id])
    \/ \E id \in {Null, "a"} :
        Traced(setNoteModalHabitId(id), [name |-> "setNoteModalHabitId", id |-> id])
    \/ \E id \in HabitIds, note \in {"", "memo", "   "} :
        Traced(addNote(id, note), [name |-> "addNote", habitId |-> id, note |-> note])

    \/ \E id \in HabitIds, editValue \in EditValues :
        Traced(handleSave(id, editValue),
               [name |-> "handleSave", id |-> id, editValue |-> editValue])
    \/ \E order \in Orderings(selectedHabits) :
        /\ habitToDelete # Null
        /\ Traced(handleConfirmDelete(order), [name |-> "handleConfirmDelete"])
    \/ ColorSelected
    \/ \E id \in HabitIds :
        Traced(onEnterSelectMode(id), [name |-> "onEnterSelectMode", id |-> id])
    \/ HasNoteCall
    \/ DownloadCall
    \/ ImportExported
    \/ ImportResumed
    \/ SerializeCall
    \/ DeserializeResult
    \/ \E raw \in SeqsUpTo(StoredPool, 1) \cup {<<BareElement.keys, FullElement.keys>>} : DeserializeStored(raw)

StepSpec == StepInit /\ [][StepNext]_vars

\* The import next to the store: uploadHabits runs on any of the files, and
\* between its await and its resumption store actions are called. While
\* confirm() is open nothing else runs.
Importing(A) == A /\ UNCHANGED <<op, pre, syncVars>>

Meanwhile(A) == upload.pc # "confirm" /\ A /\ UNCHANGED <<op, pre, upload, syncVars>>

ImportNext ==
    \/ \E file \in ImportFiles : Importing(UploadStart(file))
    \/ Importing(UploadResume)
    \/ \E proceed \in BOOLEAN : Importing(UploadConfirm(proceed))
    \/ Len(habits) < MaxStoreLen /\ Meanwhile(addHabit(NewHabit("c")))
    \/ Meanwhile(deleteHabit("a"))
    \/ Meanwhile(toggleSelectMode)
    \/ Meanwhile(selectAllHabits)
    \/ \E id \in {Null, "bulk"} : Meanwhile(setHabitToDelete(id))

ImportSpec == Init /\ [][ImportNext]_vars

\* The files of two imports whose reads overlap: a backup of version 1.0.0,
\* one of another version, one with no habit and one that is not JSON.
OverlapFiles ==
    { JsonFile(Obj([version |-> Str("1.0.0"), habits |-> Arr(<<FullElement, BareElement>>)])),
      JsonFile(Obj([version |-> Str("2.0.0"), habits |-> Arr(<<BareElement, FullElement>>)])),
      JsonFile(Obj([habits |-> Arr(<<>>)])),
      [read |-> "ok", parse |-> "SyntaxError"] }

OverlapNext ==
    \/ \E file \in OverlapFiles : Importing(UploadStart(file))
    \/ \E file \in OverlapFiles, first \in BOOLEAN :
        Importing(UploadStartOverlapped(file, first))
    \/ Importing(UploadResume)
    \/ \E proceed \in BOOLEAN : Importing(UploadConfirm(proceed))
    \/ Importing(UploadTurn)
    \/ Len(habits) < MaxStoreLen /\ Meanwhile(addHabit(NewHabit("c")))
    \/ Meanwhile(updateHabit("a", [name |-> "Walk"]))
    \/ Meanwhile(deleteHabit("b"))

OverlapSpec == Init /\ [][OverlapNext]_vars

\* One action of useHabitStore; op names it and pre is the state before it.
Called(A, name) ==
    A /\ op' = [name |-> name] /\ pre' = State /\ UNCHANGED <<upload, syncVars>>

HabitStoreNext ==
    \/ \E id \in HabitIds :
        /\ Len(habits) < MaxHabits
        /\ \A later \in LaterIds(id) \cup {id} : ~MapHas(habits, later)
        /\ Called(addHabit(NewHabit(id)), "addHabit")
    \/ Called(updateHabit("a", [name |-> "Walk"]), "updateHabit")
    \/ \E id \in HabitIds : Called(useHabitStore_deleteHabit(id), "deleteHabit")
    \/ Called(toggleDate("a", "2024-01-10"), "toggleDate")
    \/ Called(useHabitStore_toggleSelectMode, "toggleSelectMode")
    \/ \E id \in HabitIds : Called(toggleSelection(id), "toggleSelection")
    \/ Called(selectAll, "selectAll")
    \/ Called(unselectAll, "unselectAll")
    \/ Called(bulkDelete, "bulkDelete")
    \/ Called(bulkChangeColor("pink"), "bulkChangeColor")

HabitStoreSpec == Init /\ [][HabitStoreNext]_vars

\* A started read settles and an open confirm() is answered.
FairImportSpec ==
    /\ ImportSpec
    /\ WF_vars(Importing(UploadResume))
    /\ WF_vars(\E proceed \in BOOLEAN : Importing(UploadConfirm(proceed)))

\* The application with its storage: the page mounts on any stored item at
\* any of the instants, initLocalStorageSync runs in the mount effect, and
\* from then on every store action is followed by the subscriber's save;
\* the page can be reloaded at any time.
Synced(A, call) ==
    /\ subscribed
    /\ A
    /\ \E ok \in BOOLEAN : (ok \/ failedWrites < MaxFailedWrites) /\ Notify(ok)
    /\ op' = call
    /\ pre' = NoCall
    /\ UNCHANGED <<upload, subscribers, clock>>

Mount(ok) ==
    /\ ~subscribed
    /\ ok \/ failedWrites < MaxFailedWrites
    /\ initLocalStorageSync(ok)
    /\ op' = [name |-> "initLocalStorageSync", found |-> localStorage,
              reloaded |-> op.name = "reload",
              saved |-> IF op.name = "reload" THEN op.saved ELSE "none"]
    /\ pre' = IF op.name = "reload" THEN pre ELSE State

Reloading ==
    /\ Reload
    /\ op' = [name |-> "reload", saved |-> lastSave]
    /\ pre' = State

\* loadHabitsFromStorage called on what the storage holds.
LoadCall ==
    /\ op.name # "reload"
    /\ op' = [name |-> "loadHabitsFromStorage", stored |-> localStorage,
              result |-> loadHabitsFromStorage(localStorage)]
    /\ UNCHANGED <<storeVars, notified, pre, upload, syncVars>>

SyncInit ==
    /\ StoreInit
    /\ UploadInit
    /\ \/ localStorage \in StoredItems /\ clock = [days |-> Winter, hour |-> 60, ms |-> 0]
       \/ localStorage = NoItem /\ clock \in Clocks
    /\ subscribers = 0
    /\ lastSave = "none"
    /\ failedWrites = 0
    /\ op = NoCall
    /\ pre = NoCall

SyncNext ==
    \/ \E ok \in BOOLEAN : Mount(ok)
    \/ Reloading
    \/ LoadCall
    \/ \E id \in HabitIds :
        /\ Len(habits) < MaxHabits
        /\ \A later \in LaterIds(id) \cup {id} : ~MapHas(habits, later)
        /\ Synced(addHabit(NewHabit(id)), [name |-> "addHabit", id |-> id])
    \/ Synced(reorderHabits(<<"c", "a", "b">>), [name |-> "reorderHabits"])
    \/ Synced(deleteHabit("a"), [name |-> "deleteHabit", id |-> "a"])
    \/ Synced(toggleDate("a", "2024-01-10"), [name |-> "toggleDate"])
    \/ Synced(updateHabit("a", [name |-> "", color |-> "pink"]), [name |-> "updateHabit"])
    \/ Synced(addNote("a", "memo"), [name |-> "addNote"])
    \/ Synced(setHabits(ImportedHabits(<<BareElement>>)), [name |-> "setHabits"])
    \/ Synced(clearSelectedHabits, [name |-> "clearSelectedHabits"])
    \/ \E mode \in ViewModes : Synced(setViewMode(mode), [name |-> "setViewMode"])

SyncSpec == SyncInit /\ [][SyncNext]_vars

\* The mount effect of the page runs again in the same page load (the
\* development build of React runs mount effects twice; the effect has no
\* cleanup and initLocalStorageSync no guard).
MountAgain ==
    /\ subscribed
    /\ subscribers < MaxMounts
    /\ initLocalStorageSync(TRUE)
    /\ op' = [name |-> "initLocalStorageSync", found |-> localStorage,
              reloaded |-> FALSE, saved |-> "none"]
    /\ pre' = State

\* A store action with every subscribed saver called on the new state; the
\* writes succeed, and op.saves is the number of saves made.
SavedByAll(A, name) ==
    /\ subscribed
    /\ A
    /\ Notify(TRUE)
    /\ op' = [name |-> name, saves |-> subscribers]
    /\ pre' = NoCall
    /\ UNCHANGED <<upload, subscribers, clock>>

RemountNext ==
    \/ Mount(TRUE)
    \/ MountAgain
    \/ \E id \in HabitIds :
        /\ Len(habits) < MaxHabits
        /\ \A later \in LaterIds(id) \cup {id} : ~MapHas(habits, later)
        /\ SavedByAll(addHabit(NewHabit(id)), "addHabit")
    \/ SavedByAll(deleteHabit("a"), "deleteHabit")
    \/ SavedByAll(toggleDate("a", "2024-01-10"), "toggleDate")

RemountSpec == SyncInit /\ [][RemountNext]_vars

\* A millisecond passes.
Tick ==
    /\ clock.ms < MaxMs
    /\ clock' = [clock EXCEPT !.ms = @ + 1]
    /\ UNCHANGED <<storeVars, notified, op, pre, upload, localStorage, subscribers,
                   lastSave, failedWrites>>

\* generateHabitId called; op keeps its result and the result of the call
\* before it.
GenerateCall ==
    /\ op' = [name |-> "generateHabitId", result |-> generateHabitId,
              previous |-> IF op.name = "generateHabitId" THEN op.result ELSE Undefined]
    /\ UNCHANGED <<storeVars, notified, pre, upload, syncVars>>

AddInit ==
    /\ StoreInit
    /\ UploadInit
    /\ SyncOff
    /\ op = NoCall
    /\ pre = NoCall

AddNext ==
    \/ Tick
    \/ GenerateCall
    \/ \E randomColor \in {"green", "blue"} :
        /\ Len(habits) < MaxHabits
        /\ handleAddHabit(randomColor)
        /\ UNCHANGED <<op, pre, upload, syncVars>>

AddSpec == AddInit /\ [][AddNext]_vars

\* ------------------------------------------------------------ the claims

\* C1. Selection invariant: every id in selectedHabits is the id of a habit
\* currently in habits.
SelectionInvariant == \A id \in selectedHabits : MapHas(habits, id)

\* C3. Select-mode invariant: while selectMode is false, selectedHabits is
\* empty.
SelectModeInvariant == ~selectMode => selectedHabits = {}

\* C2. deleteHabit(id) is one transition: after it the habit is absent from
\* habits and the id from selectedHabits, and the subscribers were called
\* once, with that state.
DeleteHabitAtomic ==
    op.name = "deleteHabit" =>
        /\ ~MapHas(habits, op.id)
        /\ ~SetHas(selectedHabits, op.id)
        /\ notified = <<State>>
        /\ \A i \in DOMAIN notified :
            ~MapHas(notified[i].habits, op.id) /\ ~SetHas(notified[i].selectedHabits, op.id)

\* deleteHabit was called with the id of a habit that was listed and selected.
DeleteHabitWitness ==
    /\ op.name = "deleteHabit"
    /\ MapHas(pre.habits, op.id)
    /\ SetHas(pre.selectedHabits, op.id)
    /\ pre.selectedHabits # {op.id}

\* C4. toggleSelectMode: from true, selectMode becomes false and
\* selectedHabits empty; from false, selectMode becomes true and
\* selectedHabits is unchanged; habits, viewMode and the modal fields are
\* unchanged in both cases.
ToggleSelectModeEffect ==
    op.name = "toggleSelectMode" =>
        /\ pre.selectMode => ~selectMode /\ selectedHabits = {}
        /\ ~pre.selectMode => selectMode /\ selectedHabits = pre.selectedHabits
        /\ habits = pre.habits
        /\ viewMode = pre.viewMode
        /\ habitToDelete = pre.habitToDelete
        /\ habitToColor = pre.habitToColor
        /\ noteModalHabitId = pre.noteModalHabitId

\* Select mode was left with habits selected.
ToggleSelectModeWitness ==
    /\ op.name = "toggleSelectMode"
    /\ pre.selectMode
    /\ pre.selectedHabits # {}
    /\ pre.habits # <<>>

\* newOrder is an exact permutation of ids.
IsPermutation(newOrder, ids) ==
    /\ Len(newOrder) = Len(ids)
    /\ Range(newOrder) = Range(ids)
    /\ NoRepeat(newOrder)

\* C5. Reorder correctness: on a list of pairwise-distinct ids, called with
\* an exact permutation of them, reorderHabits leaves the ids in the order of
\* newOrder and the same habit records, none gained and none lost.
ReorderCorrect ==
    (/\ op.name = "reorderHabits"
     /\ NoRepeat(IdsOf(pre.habits))
     /\ IsPermutation(op.newOrder, IdsOf(pre.habits)))
    => /\ IdsOf(habits) = op.newOrder
       /\ Len(habits) = Len(pre.habits)
       /\ Range(habits) = Range(pre.habits)

\* Three habits were put into an order other than the one they had.
ReorderWitness ==
    /\ op.name = "reorderHabits"
    /\ Len(pre.habits) = 3
    /\ NoRepeat(IdsOf(pre.habits))
    /\ IsPermutation(op.newOrder, IdsOf(pre.habits))
    /\ op.newOrder # IdsOf(pre.habits)

\* The fields of a habit other than completedDates.
OtherFields(habit) == [f \in DOMAIN habit \ {"completedDates"} |-> habit[f]]

\* C6. Toggle involution: toggleDate(id, d) adds d to the completed dates of
\* the habit with that id when absent and removes it when present, and
\* leaves every other habit as it was (the whole list when no habit has the
\* id); made twice in succession it leaves every habit's completed dates as
\* they were.
ToggleInvolution ==
    op.name = "toggleDate" =>
        /\ Len(habits) = Len(pre.habits)
        /\ \A i \in DOMAIN pre.habits :
            /\ OtherFields(habits[i]) = OtherFields(pre.habits[i])
            /\ habits[i].completedDates =
                IF pre.habits[i].id # op.habitId \/ op.times = 2
                THEN pre.habits[i].completedDates
                ELSE IF op.date \in pre.habits[i].completedDates
                THEN pre.habits[i].completedDates \ {op.date}
                ELSE pre.habits[i].completedDates \cup {op.date}
        /\ ~MapHas(pre.habits, op.habitId) => habits = pre.habits

\* A date was toggled twice on a listed habit that had other dates too, next
\* to a habit with another id.
ToggleWitness ==
    /\ op.name = "toggleDate"
    /\ op.times = 2
    /\ \E i, j \in DOMAIN pre.habits :
        /\ pre.habits[i].id = op.habitId
        /\ pre.habits[i].completedDates \ {op.date} # {}
        /\ pre.habits[j].id # op.habitId

\* The five scalar fields of a habit.
ScalarFields == {"id", "name", "color", "notes", "createdAt"}

\* C7. Storage round trip: deserializeHabits(serializeHabits(H)) has the
\* length and order of H and, position by position, the same id, name,
\* color, notes, createdAt and the same set of completed date keys; a stored
\* habit with no completedDates array deserializes to the empty set.
StorageRoundTrip ==
    op.name = "deserializeHabits" =>
        /\ Len(op.result) = Len(op.raw)
        /\ \A i \in DOMAIN op.raw :
            /\ \A f \in ScalarFields : Get(op.result[i], f) = Get(op.raw[i], f)
            /\ op.result[i].completedDates =
                IF "completedDates" \in DOMAIN op.raw[i]
                THEN Range(op.raw[i].completedDates) ELSE {}
        /\ op.roundTrip =>
            /\ Len(op.result) = Len(pre.habits)
            /\ \A i \in DOMAIN pre.habits :
                /\ \A f \in ScalarFields : Get(op.result[i], f) = Get(pre.habits[i], f)
                /\ op.result[i].completedDates = pre.habits[i].completedDates

\* Three habits, one of them with two completed dates and one with no
\* notes, went through serializeHabits and deserializeHabits.
StorageRoundTripWitness ==
    /\ op.name = "deserializeHabits"
    /\ op.roundTrip
    /\ Len(pre.habits) = 3
    /\ \E i, j \in DOMAIN pre.habits :
        /\ Cardinality(pre.habits[i].completedDates) = 2
        /\ "notes" \notin DOMAIN pre.habits[j]

\* The kinds of file the import must reject, read off the file itself.
FileNotJson(file) == file.read = "ok" /\ file.parse = "SyntaxError"

FileParsed(file) == file.read = "ok" /\ file.parse = "ok"

FileSchemaError(file) ==
    /\ FileParsed(file)
    /\ file.data.t # "object" \/ Field(file.data, "habits").t # "array"

FileWellFormed(file) == FileParsed(file) /\ ~FileSchemaError(file)

FileNoHabits(file) == FileWellFormed(file) /\ Field(file.data, "habits").items = <<>>

\* C8. Import rejection leaves the store untouched: a file that is not JSON,
\* that has no object with a habits array, or that holds no habit, never
\* ends applied; it ends rejected (with the alert of its error) unless the
\* user cancelled at the version prompt; and the step that ends an import
\* rejected or cancelled calls setHabits not once and leaves habits,
\* selectedHabits, selectMode, viewMode and the modal fields as they were,
\* with no subscriber notified.
ImportRejectionUntouched ==
    /\ [][(upload.pc \in Pending /\ upload'.pc \in {"rejected", "cancelled"})
            => (UNCHANGED <<storeVars, notified>> /\ upload'.calls = 0)]_vars
    /\ [](upload.pc \in Terminal =>
            /\ FileNotJson(upload.file) =>
                upload.pc = "rejected" /\ upload.alert = InvalidJsonAlert
            /\ FileSchemaError(upload.file) =>
                /\ upload.pc = "rejected"
                /\ upload.alert \in {ImportFailed("Invalid JSON format"),
                                     ImportFailed("Missing or invalid habits array")}
            /\ FileNoHabits(upload.file) =>
                /\ upload.pc \in {"rejected", "cancelled"}
                /\ upload.pc = "cancelled" => upload.prompted
                /\ upload.calls = 0)

\* An import of a backup with no habit was rejected while the store held
\* habits and a selection.
ImportRejectionWitness ==
    /\ upload.pc = "rejected"
    /\ FileNoHabits(upload.file)
    /\ upload.alert = ImportFailed("No habits found in file")
    /\ habits # <<>>
    /\ selectedHabits # {}

\* C9. Import is all-or-nothing and ends: the step that ends a run either
\* applies it (one setHabits call, after which habits is the mapped list of
\* all the file's elements, in file order) or rejects or cancels it (no
\* setHabits call, habits unchanged); and a run that is reading or
\* prompting ends, once the read settles and the prompt is answered.
ImportAllOrNothing ==
    /\ [][(upload.pc \in Pending /\ upload'.pc \notin Pending) =>
            \/ /\ upload'.pc = "applied"
               /\ upload'.calls = 1
               /\ FileWellFormed(upload.file)
               /\ ~MapThrows(Field(upload.file.data, "habits").items)
               /\ habits' = ImportedHabits(Field(upload.file.data, "habits").items)
               /\ Len(habits') = Len(Field(upload.file.data, "habits").items)
            \/ /\ upload'.pc \in {"rejected", "cancelled"}
               /\ upload'.calls = 0
               /\ habits' = habits]_vars
    /\ [](upload.calls = IF upload.pc = "applied" THEN 1 ELSE 0)
    /\ (upload.pc \in Pending) ~> (upload.pc \in Terminal)

\* A backup of two habits was applied after the version prompt.
ImportAppliedWitness ==
    /\ upload.pc = "applied"
    /\ upload.prompted
    /\ upload.calls = 1
    /\ Len(habits) = 2
    /\ habits = ImportedHabits(Field(upload.file.data, "habits").items)

\* The version field is there and is not a string that starts with "1.".
NeedsPrompt(file) ==
    /\ FileWellFormed(file)
    /\ Field(file.data, "version").t # "absent"
    /\ ~(/\ Field(file.data, "version").t = "string"
         /\ StartsWithOneDot(Field(file.data, "version").s))

\* C10. Version gate: an import of a well-formed document whose version is
\* present and does not start with "1.", whatever its value, has asked the
\* user before it ended; a declined import has changed nothing and alerted
\* no error; a document with no version or a 1.x version is never prompted.
VersionGate ==
    upload.pc \in Terminal =>
        /\ NeedsPrompt(upload.file) => upload.prompted
        /\ (FileWellFormed(upload.file) /\ ~NeedsPrompt(upload.file)) => ~upload.prompted
        /\ upload.pc = "cancelled" => upload.alert = <<>> /\ upload.calls = 0

\* The item holds nothing a load can use: it is absent, empty or unreadable,
\* is not JSON, or parses to something without a habits array.
NothingStored(stored) ==
    \/ stored.item # "text"
    \/ stored.parse = "SyntaxError"
    \/ stored.data.t # "object"
    \/ Field(stored.data, "habits").t # "array"

\* The elements of the habits array of the stored payload.
StoredElements == Field(localStorage.data, "habits").items

\* The storage holds a payload whose habits array equals the list hs: as
\* many entries in the same order, the same fields and the same dates.
Mirror(stored, hs) ==
    /\ ~NothingStored(stored)
    /\ LET elements == Field(stored.data, "habits").items
       IN /\ Len(elements) = Len(hs)
          /\ \A i \in DOMAIN hs :
              /\ elements[i].t = "object"
              /\ \A f \in ScalarFields : Get(elements[i].keys, f) = Get(hs[i], f)
              /\ hs[i].completedDates =
                    IF "completedDates" \in DOMAIN elements[i].keys
                    THEN Range(elements[i].keys.completedDates) ELSE {}

\* The local day the clock stands on, and the day before it.
Today == clock.days[DayOf(clock)].key
Yesterday == clock.days[DayOf(clock) - 1].key

\* C11. Bootstrap on empty storage: when initLocalStorageSync found the item
\* absent, unreadable or invalid, the store holds exactly one habit, named
\* "Membaca Buku", green, whose completedDates is exactly the two-element
\* set of today's and yesterday's date keys, and the storage (its write
\* having succeeded) holds a payload with exactly that habit.
Bootstrap ==
    (op.name = "initLocalStorageSync" /\ NothingStored(op.found)) =>
        /\ Len(habits) = 1
        /\ habits[1].name = "Membaca Buku"
        /\ habits[1].color = "green"
        /\ habits[1].completedDates = {Today, Yesterday}
        /\ Cardinality(habits[1].completedDates) = 2
        /\ lastSave = "ok" => Mirror(localStorage, habits)

\* C12. Auto-sync mirror: once initLocalStorageSync has subscribed and as
\* long as the last write succeeded, the habits array of the stored payload
\* equals the in-memory habits after every store action: the save sees the
\* state the action has applied, so that reorderHabits([c, a, b]) on the
\* habits a, b, c leaves the stored order c, a, b.
AutoSyncMirror ==
    /\ []((subscribed /\ lastSave # "failed") => Mirror(localStorage, habits))
    /\ [][(/\ subscribed
           /\ op'.name = "reorderHabits"
           /\ IdsOf(habits) = <<"a", "b", "c">>
           /\ lastSave' = "ok")
          => /\ IdsOf(habits') = <<"c", "a", "b">>
             /\ [i \in 1..3 |-> (StoredElements')[i].keys.id] = <<"c", "a", "b">>]_vars

\* The habits a, b, c were reordered to c, a, b and saved.
AutoSyncWitness ==
    /\ subscribed
    /\ op.name = "reorderHabits"
    /\ lastSave = "ok"
    /\ IdsOf(habits) = <<"c", "a", "b">>
    /\ Mirror(localStorage, habits)

\* Two habits lists with the same ids in the same order and, per habit, the
\* same name, color, notes, createdAt and set of completed dates.
SameHabits(hs, gs) ==
    /\ Len(hs) = Len(gs)
    /\ \A i \in DOMAIN hs :
        /\ \A f \in ScalarFields : Get(hs[i], f) = Get(gs[i], f)
        /\ hs[i].completedDates = gs[i].completedDates

\* C13. Habits survive a reload: when the page is reloaded with a non-empty
\* habits list whose last save succeeded, initLocalStorageSync on the fresh
\* store yields the habits the store held before the reload.
SurvivesReload ==
    (/\ op.name = "initLocalStorageSync"
     /\ op.reloaded
     /\ op.saved # "failed"
     /\ pre.habits # <<>>)
        => SameHabits(habits, pre.habits)

\* Three habits, one of them renamed to the empty name, recoloured, noted
\* and with a completed date, came back after a reload.
SurvivesReloadWitness ==
    /\ op.name = "initLocalStorageSync"
    /\ op.reloaded
    /\ op.saved = "ok"
    /\ Len(pre.habits) = 3
    /\ IdsOf(habits) = <<"c", "a", "b">>
    /\ \E i \in DOMAIN habits :
        /\ Get(habits[i], "name") = ""
        /\ Get(habits[i], "color") = "pink"
        /\ Get(habits[i], "notes") = "memo"
        /\ habits[i].completedDates = {"2024-01-10"}

\* C14. Storage write failure is isolated: when the write of a save fails
\* during a store action, no exception reaches the action, the storage keeps
\* its item, the action's transition is applied (the subscribers saw the
\* new state; an added habit is there, a deleted one is gone, a replaced
\* list is replaced), and the next action saves again.
WriteFailureIsolated ==
    /\ [](lastSave # "thrown")
    /\ [][(subscribed /\ subscribed' /\ failedWrites' = failedWrites + 1)
          => /\ lastSave' = "failed"
             /\ localStorage' = localStorage
             /\ notified' = <<State'>>
             /\ op'.name = "addHabit" => habits' = Append(habits, NewHabit(op'.id))
             /\ op'.name = "deleteHabit" => habits' = WithoutId(habits, op'.id)
             /\ op'.name = "setHabits" => IdsOf(habits') = <<"b">>
             /\ op'.name = "clearSelectedHabits" => habits' = habits]_vars
    /\ [][(subscribed /\ subscribed' /\ lastSave = "failed" /\ lastSave' = "ok")
          => Mirror(localStorage', habits')]_vars

\* A habit was added while the write of its save failed.
WriteFailureWitness ==
    /\ subscribed
    /\ lastSave = "failed"
    /\ op.name = "addHabit"
    /\ Len(habits) = 2
    /\ ~Mirror(localStorage, habits)

\* C15. loadHabitsFromStorage never throws: it returns null when the item is
\* absent or empty, is not JSON, parses to null or to a value whose habits
\* field is missing or not an array, or holds an element that cannot be
\* deserialized; otherwise it returns the deserialized list.
LoadNeverThrows ==
    op.name = "loadHabitsFromStorage" =>
        /\ op.result.kind \in {"null", "habits"}
        /\ IF \/ NothingStored(op.stored)
              \/ \E i \in DOMAIN Field(op.stored.data, "habits").items :
                    Field(op.stored.data, "habits").items[i].t # "object"
           THEN op.result.kind = "null"
           ELSE /\ op.result.kind = "habits"
                /\ Mirror(op.stored, op.result.habits)

\* A load of a payload with a null element returned null, and a load of a
\* payload with two habits returned them.
LoadNullWitness ==
    /\ op.name = "loadHabitsFromStorage"
    /\ ~NothingStored(op.stored)
    /\ Len(Field(op.stored.data, "habits").items) = 2
    /\ Field(op.stored.data, "habits").items[2].t = "null"
    /\ op.result.kind = "null"

\* C16. Lookup misses are no-ops: updateHabit, deleteHabit, toggleDate,
\* addNote, addSelectedHabit and removeSelectedHabit, called with an id that
\* no habit of habits has, leave habits, selectedHabits, selectMode, viewMode
\* and the modal fields as they were.
LookupMissNoOp ==
    (\/ /\ op.name \in {"updateHabit", "deleteHabit", "addSelectedHabit",
                        "removeSelectedHabit"}
        /\ ~MapHas(pre.habits, op.id)
     \/ /\ op.name \in {"toggleDate", "addNote"}
        /\ ~MapHas(pre.habits, op.habitId))
        => State = pre

ExportImportRoundTrip ==
    (op.name = "downloadHabits" /\ upload.pc = "applied") =>
        /\ Len(habits) = Len(pre.habits)
        /\ \A i \in DOMAIN pre.habits :
            /\ \A f \in {"id", "name", "color"} : Get(habits[i], f) = Get(pre.habits[i], f)
            /\ habits[i].completedDates = pre.habits[i].completedDates
            /\ OrElse(Get(habits[i], "notes"), "") = OrElse(Get(pre.habits[i], "notes"), "")

\* C19. Closed color set: in every state reached by store actions and
\* imports, the color of every habit is one of the ten theme keys.
ClosedColorSet == \A i \in DOMAIN habits : habits[i].color \in ColorKeys

ViewModePersists ==
    (op.name = "initLocalStorageSync" /\ op.reloaded) => viewMode = pre.viewMode

\* C22. Import field defaults: the import that is applied maps each element
\* of the habits array to one habit, in array order; a missing name becomes
\* "Untitled", a missing color green, a missing completedDates the empty
\* set, a missing notes the empty string, a missing createdAt the current
\* time, and every field present in the element is kept as given.
ImportDefaults ==
    [][(upload.pc \in Pending /\ upload'.pc = "applied") =>
        LET elements == Field(upload.file.data, "habits").items
        IN /\ Len(habits') = Len(elements)
           /\ \A i \in DOMAIN elements :
               LET e == elements[i].keys
                   h == habits'[i]
                   Kept(f, default) == h[f] = IF f \in DOMAIN e THEN e[f] ELSE default
               IN /\ h.id = Get(e, "id")
                  /\ Kept("name", "Untitled")
                  /\ Kept("color", "green")
                  /\ Kept("notes", "")
                  /\ Kept("createdAt", Now)
                  /\ h.completedDates =
                        IF "completedDates" \in DOMAIN e
                        THEN Range(e.completedDates) ELSE {}]_vars

\* C23. Bulk delete as sequential deletes: confirming a delete while
\* habitToDelete = 'bulk' with selection S makes one deleteHabit call per id
\* of S; after the last one habits is the prior list without the habits of
\* S, the others in their prior order, selectedHabits is empty and
\* habitToDelete is null; and every state between two of the deletes has
\* selectedHabits within the ids of habits.
BulkDeleteSequential ==
    (op.name = "handleConfirmDelete" /\ pre.habitToDelete = "bulk") =>
        /\ Len(notified) = Cardinality(pre.selectedHabits) + 1
        /\ habits = SelectSeq(pre.habits, LAMBDA h : h.id \notin pre.selectedHabits)
        /\ selectedHabits = {}
        /\ habitToDelete = Null
        /\ \A k \in 1..(Cardinality(pre.selectedHabits) - 1) :
            notified[k].selectedHabits \subseteq Range(IdsOf(notified[k].habits))

\* C24. Bulk recolor: choosing color c while the color target is 'bulk' with
\* selection S leaves every habit whose id is in S with color c and its
\* other fields unchanged, every habit not in S unchanged, and the length
\* and order of habits as they were.
BulkRecolor ==
    (op.name = "handleColorSelect" /\ op.target = "bulk") =>
        /\ Len(habits) = Len(pre.habits)
        /\ IdsOf(habits) = IdsOf(pre.habits)
        /\ \A i \in DOMAIN pre.habits :
            IF pre.habits[i].id \in pre.selectedHabits
            THEN /\ habits[i].color = op.color
                 /\ DOMAIN habits[i] = DOMAIN pre.habits[i]
                 /\ \A f \in DOMAIN habits[i] \ {"color"} : habits[i][f] = pre.habits[i][f]
            ELSE habits[i] = pre.habits[i]

\* Two of three habits were selected and recolored, the third was not.
BulkRecolorWitness ==
    /\ op.name = "handleColorSelect"
    /\ op.target = "bulk"
    /\ pre.selectedHabits = {"a", "c"}
    /\ IdsOf(habits) = <<"a", "b", "c">>
    /\ habits[1].color = "teal"
    /\ habits[2].color = "blue"
    /\ habits[3].color = "teal"
    /\ pre.habits[1].color = "green"
    /\ habitToColor = Null

\* C25. reorderHabits with a non-permutation: every habit whose id is in
\* the current habits but absent from newOrder is absent from the result,
\* every id of newOrder that matches no current habit contributes nothing,
\* and the habits that remain are habits of the prior list, in the order
\* their ids have in newOrder.
ReorderNonPermutation ==
    (op.name = "reorderHabits") =>
        /\ \A h \in Range(pre.habits) :
            h.id \notin Range(op.newOrder) => h.id \notin Range(IdsOf(habits))
        /\ Range(habits) \subseteq Range(pre.habits)
        /\ IdsOf(habits) =
            SelectSeq(op.newOrder, LAMBDA id : id \in Range(IdsOf(pre.habits)))

\* A new order that names an id of no habit and leaves one habit out: the
\* habit left out is gone and the unknown id has added nothing.
ReorderNonPermutationWitness ==
    /\ op.name = "reorderHabits"
    /\ op.newOrder = <<"z", "b">>
    /\ IdsOf(pre.habits) = <<"a", "b", "c">>
    /\ habits = <<pre.habits[2]>>

\* C26. Bootstrap and auto-sync subscription happen once per process
\* lifetime: the load-or-seed step of initLocalStorageSync runs once, at
\* most one persistence subscriber is registered on the store, and each
\* store state change triggers exactly one save.
OncePerLifetime ==
    /\ subscribers <= 1
    /\ op.name \in {"addHabit", "deleteHabit", "toggleDate"} => op.saves = 1

\* C27. hasNote(id) returns true exactly when the habit with that id exists
\* and its notes, after trimming whitespace, is a non-empty string; it
\* returns false for a missing habit, an absent notes field, the empty
\* string and a whitespace-only note.
HasNoteTrimmed ==
    (op.name = "hasNote") =>
        (op.result <=>
            \E i \in DOMAIN habits :
                /\ habits[i].id = op.habitId
                /\ \A j \in 1..(i - 1) : habits[j].id # op.habitId
                /\ "notes" \in DOMAIN habits[i]
                /\ trim(habits[i].notes) # "")

\* C28. Exported names use the placeholder: in every export document a
\* habit whose stored name is empty or whitespace-only appears with the name
\* "Untitled", and the name in the store is left as it was.
ExportedPlaceholder ==
    (op.name = "downloadHabits" /\ pre.habits # <<>>) =>
        /\ habits = pre.habits
        /\ \A i \in DOMAIN pre.habits :
            trim(Get(pre.habits[i], "name")) = ""
                => Get(Field(op.documents[1], "habits").items[i].keys, "name") = "Untitled"

\* C29. Identity fields are immutable: across the store actions that keep a
\* habit in the list (updateHabit with any partial fields, toggleDate,
\* addNote, reorderHabits, the selection and modal actions) its id and its
\* createdAt keep the values they had.
IdentityImmutable ==
    /\ op.name \in {"updateHabit", "toggleDate", "addNote", "setViewMode",
                    "toggleSelectMode", "addSelectedHabit", "removeSelectedHabit",
                    "clearSelectedHabits", "selectAllHabits", "setHabitToDelete",
                    "setHabitToColor", "setNoteModalHabitId"}
        => /\ Len(habits) = Len(pre.habits)
           /\ \A i \in DOMAIN habits :
                /\ habits[i].id = pre.habits[i].id
                /\ Get(habits[i], "createdAt") = Get(pre.habits[i], "createdAt")
    /\ op.name = "reorderHabits"
        => \A h \in Range(habits) : \E g \in Range(pre.habits) :
                h.id = g.id /\ Get(h, "createdAt") = Get(g, "createdAt")

\* C30. Any two calls of generateHabitId within one session return
\* different ids, so that habits created one after another never share an
\* id.
UniqueHabitIds ==
    /\ (op.name = "generateHabitId" /\ op.previous # Undefined) => op.result # op.previous
    /\ NoRepeat(IdsOf(habits))

\* C31. Unique habit ids: in every state reached by the store actions and
\* by successful imports, every habit has a defined id and no two habits of
\* the list have the same id; the import hands setHabits only lists whose
\* ids are pairwise distinct.
UniqueDefinedIds ==
    /\ \A i \in DOMAIN habits : Get(habits[i], "id") # Undefined
    /\ NoRepeat(IdsOf(habits))

\* C32. Frame of each action: setViewMode changes only viewMode;
\* setHabitToDelete, setHabitToColor and setNoteModalHabitId each change
\* only their own field; addSelectedHabit, removeSelectedHabit,
\* clearSelectedHabits and selectAllHabits change only selectedHabits;
\* setHabits, addHabit (which appends the habit as the last element and
\* keeps the others in their order), updateHabit, toggleDate, addNote and
\* reorderHabits change only habits.
ActionFrame ==
    LET Only(field) == \A f \in DOMAIN pre \ {field} : State[f] = pre[f]
    IN /\ op.name = "setViewMode" => Only("viewMode")
       /\ op.name = "setHabitToDelete" => Only("habitToDelete")
       /\ op.name = "setHabitToColor" => Only("habitToColor")
       /\ op.name = "setNoteModalHabitId" => Only("noteModalHabitId")
       /\ op.name \in {"addSelectedHabit", "removeSelectedHabit", "clearSelectedHabits",
                       "selectAllHabits"} => Only("selectedHabits")
       /\ op.name \in {"setHabits", "addHabit", "updateHabit", "toggleDate", "addNote",
                       "reorderHabits"} => Only("habits")
       /\ op.name = "addHabit" => habits = Append(pre.habits, op.habit)

\* A habit was selected while select mode was off, a delete target was set
\* and the list was not empty: only the selection has changed.
ActionFrameWitness ==
    /\ op.name = "addSelectedHabit"
    /\ selectedHabits # pre.selectedHabits
    /\ ~selectMode
    /\ habitToDelete = "bulk"
    /\ Len(habits) = 2

\* C33. Entering select mode from a card: when selectMode is false and
\* 'Select Mode' is picked on habit h, the handler runs toggleSelectMode and
\* then addSelectedHabit(h), and the state it settles in has selectMode =
\* true and selectedHabits = {h} exactly.
EnterSelectMode ==
    (op.name = "onEnterSelectMode") =>
        /\ Len(notified) = 2
        /\ selectMode
        /\ selectedHabits = {op.id}

\* C34. The modal sentinel 'bulk' is never confused with a habit id: in
\* every reachable state no habit has the id 'bulk', so that a delete or
\* color target set from a card never stands for the selection.
NoBulkId == \A i \in DOMAIN habits : Get(habits[i], "id") # "bulk"

\* C35. Overlapping imports and actions interleaved with a pending read: an
\* import changes the store only in the one step that applies it, after its
\* own read and validation; whatever store actions or other import ran while
\* its read was pending, the list after that step is exactly the mapped list
\* of its own file, never a mixture of two files or of a file and edits.
OverlappingImports ==
    [][(upload' # upload) =>
        \/ UNCHANGED <<storeVars, notified>>
        \/ /\ upload.pc \in Pending
           /\ upload'.pc = "applied"
           /\ upload'.calls = 1
           /\ habits' = ImportedHabits(Field(upload.file.data, "habits").items)
           /\ UNCHANGED <<viewMode, selectMode, selectedHabits, habitToDelete,
                          habitToColor, noteModalHabitId>>]_vars

\* An import whose read was pending while another import ran to its end was
\* applied after it: the list is the mapped list of its own file.
OverlappingImportsWitness ==
    /\ upload.pc = "applied"
    /\ upload.overlapped
    /\ upload.prompted
    /\ IdsOf(habits) = <<"b", "a">>
    /\ habits = ImportedHabits(Field(upload.file.data, "habits").items)

\* C36. The store is never empty right after bootstrap: whenever
\* initLocalStorageSync has completed, habits is non-empty; when the stored
\* payload held an empty habits array (every habit was deleted before the
\* reload), the store holds exactly the one seed habit and the payload (its
\* write having succeeded) is overwritten with it.
NeverEmptyAfterBootstrap ==
    (op.name = "initLocalStorageSync") =>
        /\ Len(habits) >= 1
        /\ (~NothingStored(op.found) /\ Field(op.found.data, "habits").items = <<>>) =>
            /\ habits = <<defaultHabit>>
            /\ lastSave = "ok" => Mirror(localStorage, habits)

\* After a reload that found the payload of an emptied list, the store and
\* the storage hold the seed habit.
NeverEmptyWitness ==
    /\ op.name = "initLocalStorageSync"
    /\ op.reloaded
    /\ ~NothingStored(op.found)
    /\ Field(op.found.data, "habits").items = <<>>
    /\ Len(habits) = 1
    /\ habits[1].name = "Membaca Buku"
    /\ StoredElements # <<>>
    /\ Mirror(localStorage, habits)

\* C37. reorderHabits never grows or duplicates the list: for every list
\* with distinct ids and every newOrder, also one that repeats an id, the
\* result has at most as many habits as before and holds each habit at most
\* once.
ReorderNeverGrows ==
    (op.name = "reorderHabits" /\ NoRepeat(IdsOf(pre.habits))) =>
        /\ Len(habits) <= Len(pre.habits)
        /\ NoRepeat(habits)

\* C38. Selection invariant of the second store useHabitStore: after any
\* sequence of its actions every id in selectedHabits is the id of a habit
\* in habits, and bulkDelete and bulkChangeColor each end, in one
\* transition, with selectedHabits empty and selectMode false.
HabitStoreSelection ==
    /\ selectedHabits \subseteq Range(IdsOf(habits))
    /\ op.name \in {"bulkDelete", "bulkChangeColor"} =>
        /\ Len(notified) = 1
        /\ selectedHabits = {}
        /\ ~selectMode

====
